---- MODULE Spec2Model ----
(***************************************************************************)
(* Model of src/javascript/elements/parsedElements.js: the ParsedElement   *)
(* type (attributes, content, children) and the two factories registered   *)
(* as 'parsedElement' and 'parsedSnippet'.                                 *)
(*                                                                         *)
(* Text is a sequence of one-character strings, so that escaping and       *)
(* concatenation are computed and not assumed.  The caret placeholder is   *)
(* one reserved symbol.  The fields count, syntax, options, repeat_by_lines*)
(* has_implicit_name and _paste_content are written once by the            *)
(* constructor (or by setPasteContent) and read by nothing modelled here;  *)
(* they are left out.                                                      *)
(***************************************************************************)
EXTENDS Integers, Sequences, FiniteSets, TLC

VARIABLES heap, calls, made, last, hung

vars == <<heap, calls, made, last, hung>>

(***************************** bounds **************************************)
\* attribute pairs supplied to one element, over definition, node and
\* direct addAttribute / copyAttributes calls together
MaxCalls == 4
\* attributes of one node (also of one copyAttributes source)
MaxNodeAttrs == 2
\* attributes of one element definition passed as the resource
MaxDefAttrs == 2
\* elements of the tree specifications
MaxElems == 4
\* addChild calls of SpecTree
MaxAdds == 3
\* elements and addChild calls of SpecContent
MaxContentElems == 2
MaxContentAdds == 1

(***************************** values **************************************)
Null == 0
Undefined == "undefined"
Pipe == "|"
Backslash == "\\"
Space == " "
Caret == "{caret}"

\* utils.getCaretPlaceholder(): a stable reserved token
getCaretPlaceholder == <<Caret>>

\* utils.replaceUnescapedSymbol(str, symbol, replace): a backslash-escaped
\* symbol becomes the literal symbol, an unescaped one becomes `replace`
RECURSIVE replaceUnescapedSymbol(_, _, _)
replaceUnescapedSymbol(str, symbol, replace) ==
    IF str = <<>> THEN <<>>
    ELSE IF Head(str) = Backslash /\ Len(str) >= 2
         THEN (IF str[2] = symbol THEN <<symbol>> ELSE <<Backslash, str[2]>>)
              \o replaceUnescapedSymbol(SubSeq(str, 3, Len(str)), symbol, replace)
    ELSE IF Head(str) = symbol
         THEN replace \o replaceUnescapedSymbol(Tail(str), symbol, replace)
    ELSE <<Head(str)>> \o replaceUnescapedSymbol(Tail(str), symbol, replace)

\* JavaScript values returned by getContent: a string or a number
Str(s) == [t |-> "string", s |-> s, n |-> 0]
Num(n) == [t |-> "number", s |-> <<>>, n |-> n]

(************************* definitions (resources) *************************)
Absent == [kind |-> "absent", name |-> Undefined, attributes |-> <<>>, data |-> <<>>, to |-> Undefined]
\* elems.create('element', name, attrs)
Element(name, attrs) == [Absent EXCEPT !.kind = "element", !.name = name, !.attributes = attrs]
\* elems.create('snippet', value)
Snippet(value) == [Absent EXCEPT !.kind = "snippet", !.data = value]
\* elems.create('reference', value): the name referred to
Reference(to) == [Absent EXCEPT !.kind = "reference", !.to = to]
\* a resource argument that is a string: an element name for the tag
\* factory, template text for the snippet factory
NameString(s) == [Absent EXCEPT !.kind = "string", !.name = s]
TextString(t) == [Absent EXCEPT !.kind = "string", !.data = t]

isString(resource) == resource.kind = "string"
Truthy(resource) == resource.kind # "absent"
\* elems.is(resource, 'reference')
isReference(resource) == resource.kind = "reference"

Attr(n, v) == [name |-> n, value |-> v]

\* res.getAbbreviation(syntax, name) over a settings table:
\*   b is an element, a refers to b, c refers to a, d refers to nothing
getAbbreviation(name) ==
    CASE name = "a" -> Reference("b")
      [] name = "b" -> Element("blockquote", <<Attr("class", <<"q">>), Attr("id", <<"|">>)>>)
      [] name = "c" -> Reference("a")
      [] name = "d" -> Reference("z")
      [] OTHER -> Absent

\* res.getSnippet(syntax, name): template text
getSnippet(name) ==
    CASE name = "a" -> <<"x", "|">>
      [] OTHER -> <<>>

(***************************** ParsedElement *******************************)
\* names every object inherits from Object.prototype: `name in {}` is true
ObjectPrototypeNames ==
    {"constructor", "toString", "toLocaleString", "valueOf", "hasOwnProperty",
     "isPrototypeOf", "propertyIsEnumerable", "__proto__"}

EmptyHash == [n \in {} |-> 0]

TextContent(s) == [kind |-> "text", text |-> s, fn |-> "none"]
FunctionContent(f) == [kind |-> "function", text |-> <<>>, fn |-> f]
OtherData == [kind |-> "other", text |-> <<>>, fn |-> "none"]

\* setContent(data)
setContent(el, data) ==
    IF data.kind = "text"
    THEN [el EXCEPT !.content =
            TextContent(replaceUnescapedSymbol(data.text, Pipe, getCaretPlaceholder))]
    ELSE IF data.kind = "function"
    THEN [el EXCEPT !.content = data]
    ELSE el

\* new ParsedElement(node, syntax, resource, options)
ParsedElement(node, resource) ==
    setContent(
        [abbr |-> resource,
         name |-> IF Truthy(resource) THEN resource.name ELSE node.name,
         real_name |-> node.name,
         content |-> TextContent(<<>>),
         parent |-> Null,
         children |-> <<>>,
         attributes |-> <<>>,
         attr_hash |-> EmptyHash,
         has_value |-> FALSE,
         value |-> <<>>],
        node.text)

\* `name in this._attr_hash`
InHash(name, hash) == name \in DOMAIN hash \/ name \in ObjectPrototypeNames

\* addAttribute without the lookup in _attr_hash: every call appends
addAttributeAlwaysAppend(el, name, value) ==
    [el EXCEPT !.attributes =
        Append(@, Attr(name, replaceUnescapedSymbol(value, Pipe, getCaretPlaceholder))),
               !.attr_hash = (name :> (Len(el.attributes) + 1)) @@ @]

\* addAttribute without the 'class' branch: class is replaced like the rest
addAttributeClassReplace(el, name, value) ==
    LET v == replaceUnescapedSymbol(value, Pipe, getCaretPlaceholder) IN
    IF InHash(name, el.attr_hash)
    THEN IF name \in DOMAIN el.attr_hash
         THEN [el EXCEPT !.attributes[el.attr_hash[name]].value = v]
         ELSE el
    ELSE [el EXCEPT !.attributes = Append(@, Attr(name, v)),
                    !.attr_hash = @ @@ (name :> (Len(el.attributes) + 1))]

\* addAttribute that adds the separating space only before a non-empty value
addAttributeSkipEmpty(el, name, value) ==
    LET v == replaceUnescapedSymbol(value, Pipe, getCaretPlaceholder) IN
    IF InHash(name, el.attr_hash)
    THEN IF name \in DOMAIN el.attr_hash
         THEN LET i == el.attr_hash[name]
                  old == el.attributes[i].value
              IN  IF name = "class"
                  THEN [el EXCEPT !.attributes[i].value =
                            old \o (IF old # <<>> /\ v # <<>> THEN <<Space>> ELSE <<>>) \o v]
                  ELSE [el EXCEPT !.attributes[i].value = v]
         ELSE el
    ELSE [el EXCEPT !.attributes = Append(@, Attr(name, v)),
                    !.attr_hash = @ @@ (name :> (Len(el.attributes) + 1))]

\* addAttribute(name, value); attr_hash[name] is the position in attributes
\* of the attribute object the hash shares with the list
addAttribute(el, name, value) ==
    LET v == replaceUnescapedSymbol(value, Pipe, getCaretPlaceholder) IN
    IF InHash(name, el.attr_hash)
    THEN IF name \in DOMAIN el.attr_hash
         THEN LET i == el.attr_hash[name]
                  old == el.attributes[i].value
              IN  IF name = "class"
                  THEN [el EXCEPT !.attributes[i].value =
                            old \o (IF old # <<>> THEN <<Space>> ELSE <<>>) \o v]
                  ELSE [el EXCEPT !.attributes[i].value = v]
         \* an inherited property: the write lands on Object.prototype's own
         \* object and the element keeps its attributes
         ELSE el
    ELSE [el EXCEPT !.attributes = Append(@, Attr(name, v)),
                    !.attr_hash = @ @@ (name :> (Len(el.attributes) + 1))]

\* _.each(attributes, attr => that.addAttribute(attr.name, attr.value))
RECURSIVE eachAddAttribute(_, _)
eachAddAttribute(el, attrs) ==
    IF attrs = <<>> THEN el
    ELSE eachAddAttribute(addAttribute(el, Head(attrs).name, Head(attrs).value), Tail(attrs))

\* copyAttributes(node)
copyAttributes(el, node) == eachAddAttribute(el, node.attributes)

\* getContent that evaluates the producer on the element as constructed
getContentStale(el) ==
    IF el.content.kind = "function"
    THEN (CASE el.content.fn = "childCount" -> Num(0)
            [] el.content.fn = "realName" -> Str(<<el.real_name>>))
    ELSE Str(el.content.text)

\* getContent()
getContent(el) ==
    IF el.content.kind = "function"
    THEN (CASE el.content.fn = "childCount" -> Num(Len(el.children))
            [] el.content.fn = "realName" -> Str(<<el.real_name>>))
    ELSE Str(el.content.text)

\* addChild(elem) on element p of heap h, with elem = c
addChild(h, p, c) == [h EXCEPT ![c].parent = p, ![p].children = Append(@, c)]

\* _.first(array)
FirstOf(seq) == seq[1]

\* _.last(array)
LastOf(seq) == seq[Len(seq)]

\* the while loop of findDeepestChild from deepestChild = d.  The heap does
\* not change during the loop, so a walk that has taken Len(h) steps and
\* still stands on an element with children has visited one element twice
\* and never ends: returns = FALSE.
RECURSIVE followLast(_, _, _)
followLast(h, d, fuel) ==
    IF Len(h[d].children) = 0 THEN [returns |-> TRUE, elem |-> d]
    ELSE IF fuel = 0 THEN [returns |-> FALSE, elem |-> Null]
    ELSE followLast(h, LastOf(h[d].children), fuel - 1)

\* findDeepestChild() on element e of heap h
findDeepestChild(h, e) ==
    IF Len(h[e].children) = 0
    THEN [returns |-> TRUE, elem |-> Null]
    ELSE followLast(h, e, Len(h))

(***************************** factories ***********************************)
Lookup(store, name) == [store |-> store, name |-> name]

\* the tag factory following references as long as it finds them
parsedElementFollowChain(node, resource) ==
    LET r1 == IF isString(resource) THEN Element(resource.name, <<>>) ELSE resource
        look1 == ~Truthy(r1) /\ node.name # ""
        r2 == IF look1 THEN getAbbreviation(node.name) ELSE r1
        look2 == Truthy(r2) /\ isReference(r2)
        r3 == IF look2 THEN getAbbreviation(r2.to) ELSE r2
        look3 == Truthy(r3) /\ isReference(r3)
        r4 == IF look3 THEN getAbbreviation(r3.to) ELSE r3
        e0 == ParsedElement(node, r4)
        e1 == IF Truthy(e0.abbr) THEN copyAttributes(e0, e0.abbr) ELSE e0
    IN  [el |-> copyAttributes(e1, node),
         ref |-> IF look2 THEN r2.to ELSE Undefined,
         lookups |-> (IF look1 THEN <<Lookup("abbreviation", node.name)>> ELSE <<>>)
                     \o (IF look2 THEN <<Lookup("abbreviation", r2.to)>> ELSE <<>>)
                     \o (IF look3 THEN <<Lookup("abbreviation", r3.to)>> ELSE <<>>)]

\* elems.add('parsedElement', function(node, syntax, resource, options))
\* returns the element and the Resource Store lookups it made, in order
parsedElement(node, resource) ==
    LET r1 == IF isString(resource) THEN Element(resource.name, <<>>) ELSE resource
        look1 == ~Truthy(r1) /\ node.name # ""
        r2 == IF look1 THEN getAbbreviation(node.name) ELSE r1
        look2 == Truthy(r2) /\ isReference(r2)
        r3 == IF look2 THEN getAbbreviation(r2.to) ELSE r2
        e0 == ParsedElement(node, r3)
        e1 == IF Truthy(e0.abbr) THEN copyAttributes(e0, e0.abbr) ELSE e0
    IN  [el |-> copyAttributes(e1, node),
         ref |-> IF look2 THEN r2.to ELSE Undefined,
         lookups |-> (IF look1 THEN <<Lookup("abbreviation", node.name)>> ELSE <<>>)
                     \o (IF look2 THEN <<Lookup("abbreviation", r2.to)>> ELSE <<>>)]

\* the snippet factory copying the node's attributes before its own two
parsedSnippetNodeFirst(node, resource) ==
    LET r1 == IF isString(resource) THEN Snippet(resource.data) ELSE resource
        e0 == ParsedElement(node, r1)
        data == IF Truthy(r1) THEN r1.data ELSE getSnippet(e0.name)
        e1 == [e0 EXCEPT !.has_value = TRUE,
                         !.value = replaceUnescapedSymbol(data, Pipe, getCaretPlaceholder)]
        e2 == copyAttributes(e1, node)
        e3 == addAttribute(e2, "id", getCaretPlaceholder)
    IN  [el |-> addAttribute(e3, "class", getCaretPlaceholder),
         lookups |-> IF Truthy(r1) THEN <<>> ELSE <<Lookup("snippet", e0.name)>>]

\* elems.add('parsedSnippet', function(node, syntax, resource, options))
parsedSnippet(node, resource) ==
    LET r1 == IF isString(resource) THEN Snippet(resource.data) ELSE resource
        e0 == ParsedElement(node, r1)
        data == IF Truthy(r1) THEN r1.data ELSE getSnippet(e0.name)
        e1 == [e0 EXCEPT !.has_value = TRUE,
                         !.value = replaceUnescapedSymbol(data, Pipe, getCaretPlaceholder)]
        e2 == addAttribute(e1, "id", getCaretPlaceholder)
        e3 == addAttribute(e2, "class", getCaretPlaceholder)
    IN  [el |-> copyAttributes(e3, node),
         lookups |-> IF Truthy(r1) THEN <<>> ELSE <<Lookup("snippet", e0.name)>>]

(***************************** inputs **************************************)
Names == {"id", "class", "constructor"}
AttrPairs ==
    {Attr("class", <<>>), Attr("class", <<"a">>), Attr("class", <<"b">>),
     Attr("class", <<Backslash, Pipe, Pipe>>),
     Attr("id", <<"a">>), Attr("id", <<Backslash, Pipe, Pipe>>),
     Attr("constructor", <<"a">>)}
\* the attribute lists of length n
AttrLists(n) == [1..n -> AttrPairs]
Min(a, b) == IF a < b THEN a ELSE b
Node(name, attrs) == [name |-> name, attributes |-> attrs, text |-> OtherData]
\* node names looked up when no resource is passed
NodeNames == {"", "a", "b", "c", "d", "z"}
\* resources passed to the tag factory other than element definitions
TagResources == {NameString("s"), Reference("b"), Reference("z")}
SnippetResources == {TextString(<<"t", Pipe>>), Snippet(<<Backslash, Pipe>>)}

(***************************** state ***************************************)
\* heap:  the elements constructed so far, by identity (position)
\* calls: the (name, value) pairs passed to addAttribute on element 1, in order
\* made:  the factory invocation that made element 1: the factory, the
\*        Resource Store lookups it performed, the name its Reference (if
\*        any) referred to, and whether the element is as the factory left it
\* last:  the last call that returned a value, and the value
\* hung:  a call that never returns is in progress
NotMade ==
    [op |-> "none", fresh |-> FALSE, lookups |-> <<>>, ref |-> Undefined, nodeName |-> ""]
NoCall == [op |-> "none", elem |-> Null, ret |-> Num(0), retElem |-> Null]

\* pairs supplied by the caller: the snippet factory's own two are not counted
Supplied == Len(calls) - (IF made.op = "parsedSnippet" THEN 2 ELSE 0)

Init ==
    /\ heap = <<>>
    /\ calls = <<>>
    /\ made = NotMade
    /\ last = NoCall
    /\ hung = FALSE

ParsedElementFactory(node, resource) ==
    /\ LET r == parsedElement(node, resource) IN
       /\ Len(r.el.abbr.attributes) + Len(node.attributes) <= MaxCalls
       /\ heap' = <<r.el>>
       /\ calls' = r.el.abbr.attributes \o node.attributes
       /\ made' = [op |-> "parsedElement", fresh |-> TRUE, lookups |-> r.lookups,
                   ref |-> r.ref, nodeName |-> node.name]
    /\ UNCHANGED <<last, hung>>

ParsedSnippetFactory(node, resource) ==
    /\ LET r == parsedSnippet(node, resource) IN
       /\ heap' = <<r.el>>
       /\ calls' = <<Attr("id", getCaretPlaceholder), Attr("class", getCaretPlaceholder)>>
                    \o node.attributes
       /\ made' = [op |-> "parsedSnippet", fresh |-> TRUE, lookups |-> r.lookups,
                   ref |-> Undefined, nodeName |-> node.name]
    /\ UNCHANGED <<last, hung>>

AddAttribute(e, name, value) ==
    /\ e \in DOMAIN heap
    /\ Supplied + 1 <= MaxCalls
    /\ heap' = [heap EXCEPT ![e] = addAttribute(@, name, value)]
    /\ calls' = Append(calls, Attr(name, value))
    /\ made' = [made EXCEPT !.fresh = FALSE]
    /\ UNCHANGED <<last, hung>>

CopyAttributes(e, node) ==
    /\ e \in DOMAIN heap
    /\ Supplied + Len(node.attributes) <= MaxCalls
    /\ heap' = [heap EXCEPT ![e] = copyAttributes(@, node)]
    /\ calls' = calls \o node.attributes
    /\ made' = [made EXCEPT !.fresh = FALSE]
    /\ UNCHANGED <<last, hung>>

\* one factory invocation makes the element; the calls on it follow
Next ==
    \/ /\ heap = <<>>
       /\ \E name \in NodeNames, n \in 0..MaxNodeAttrs : \E attrs \in AttrLists(n) :
             ParsedElementFactory(Node(name, attrs), Absent)
    \/ /\ heap = <<>>
       /\ \E resource \in TagResources, n \in 0..MaxNodeAttrs : \E attrs \in AttrLists(n) :
             ParsedElementFactory(Node("a", attrs), resource)
    \/ /\ heap = <<>>
       /\ \E k \in 0..MaxDefAttrs : \E n \in 0..Min(MaxNodeAttrs, MaxCalls - k) :
             \E d \in AttrLists(k), attrs \in AttrLists(n) :
                ParsedElementFactory(Node("a", attrs), Element("e", d))
    \/ /\ heap = <<>>
       /\ \E name \in {"a", "z"}, n \in 0..MaxNodeAttrs : \E attrs \in AttrLists(n) :
             ParsedSnippetFactory(Node(name, attrs), Absent)
    \/ /\ heap = <<>>
       /\ \E resource \in SnippetResources, n \in 0..MaxNodeAttrs : \E attrs \in AttrLists(n) :
             ParsedSnippetFactory(Node("a", attrs), resource)
    \/ \E a \in AttrPairs : AddAttribute(1, a.name, a.value)
    \/ \E n \in 0..Min(MaxNodeAttrs, MaxCalls - Supplied) : \E attrs \in AttrLists(n) :
          CopyAttributes(1, Node("", attrs))

Spec == Init /\ [][Next]_vars

(***************************** trees ***************************************)
\* the elements of the tree specifications, each made by the constructor
\* from a node without text and without a matched definition
InitTree ==
    /\ heap = [i \in 1..MaxElems |-> ParsedElement(Node(ToString(i), <<>>), Absent)]
    /\ calls = <<>>
    /\ made = NotMade
    /\ last = NoCall
    /\ hung = FALSE

RECURSIVE SumLen(_, _)
SumLen(h, n) == IF n = 0 THEN 0 ELSE Len(h[n].children) + SumLen(h, n - 1)
\* addChild calls made so far: each appends one entry
Added == SumLen(heap, Len(heap))

AddChild(p, c) ==
    /\ ~hung
    /\ heap' = addChild(heap, p, c)
    /\ last' = NoCall
    /\ UNCHANGED <<calls, made, hung>>

FindDeepestChild(e) ==
    /\ ~hung
    /\ LET r == findDeepestChild(heap, e) IN
       IF r.returns
       THEN /\ last' = [NoCall EXCEPT !.op = "findDeepestChild", !.elem = e,
                                      !.retElem = r.elem]
            /\ hung' = FALSE
       ELSE /\ last' = [NoCall EXCEPT !.op = "findDeepestChild", !.elem = e]
            /\ hung' = TRUE
    /\ UNCHANGED <<heap, calls, made>>

NextTree ==
    \/ \E p \in DOMAIN heap, c \in DOMAIN heap : Added < MaxAdds /\ AddChild(p, c)
    \/ \E e \in DOMAIN heap : FindDeepestChild(e)

SpecTree == InitTree /\ [][NextTree]_vars

(***************************** content *************************************)
ContentData ==
    {[kind |-> "text", text |-> <<"a", Pipe>>, fn |-> "none"],
     FunctionContent("childCount"), FunctionContent("realName"), OtherData}

SetContent(e, data) ==
    /\ heap' = [heap EXCEPT ![e] = setContent(@, data)]
    /\ last' = NoCall
    /\ UNCHANGED <<calls, made, hung>>

GetContent(e) ==
    /\ last' = [NoCall EXCEPT !.op = "getContent", !.elem = e, !.ret = getContent(heap[e])]
    /\ UNCHANGED <<heap, calls, made, hung>>

NextContent ==
    \/ \E e \in DOMAIN heap, data \in ContentData : SetContent(e, data)
    \/ \E e \in DOMAIN heap : GetContent(e)
    \/ \E p \in DOMAIN heap, c \in DOMAIN heap : Added < MaxContentAdds /\ AddChild(p, c)

InitContent ==
    /\ heap = [i \in 1..MaxContentElems |-> ParsedElement(Node(ToString(i), <<>>), Absent)]
    /\ calls = <<>>
    /\ made = NotMade
    /\ last = NoCall
    /\ hung = FALSE

SpecContent == InitContent /\ [][NextContent]_vars

(***************************** properties **********************************)
Esc(v) == replaceUnescapedSymbol(v, Pipe, getCaretPlaceholder)
AttrNamesOf(attrs) == [i \in 1..Len(attrs) |-> attrs[i].name]
Named(attrs, n) == SelectSeq(attrs, LAMBDA a : a.name = n)
ValuesOf(attrs, n) == [i \in 1..Len(Named(attrs, n)) |-> Named(attrs, n)[i].value]
HasName(attrs, n) == \E i \in 1..Len(attrs) : attrs[i].name = n
ValueOf(attrs, n) == attrs[CHOOSE i \in 1..Len(attrs) : attrs[i].name = n].value
Count(attrs, n) == Cardinality({i \in 1..Len(attrs) : attrs[i].name = n})
\* the names of a list in the order of their first occurrence
RECURSIVE Dedup(_)
Dedup(s) ==
    IF s = <<>> THEN <<>>
    ELSE LET d == Dedup(SubSeq(s, 1, Len(s) - 1))
             x == s[Len(s)]
         IN  IF \E i \in 1..Len(d) : d[i] = x THEN d ELSE Append(d, x)
\* class values joined in order: one space before a value that follows a
\* non-empty value
RECURSIVE JoinClass(_)
JoinClass(vs) ==
    IF vs = <<>> THEN <<>>
    ELSE LET before == JoinClass(SubSeq(vs, 1, Len(vs) - 1))
             v == Esc(vs[Len(vs)])
         IN  IF Len(vs) = 1 THEN v
             ELSE IF before # <<>> THEN before \o <<Space>> \o v ELSE v
\* every value preceded by one space
RECURSIVE SpaceBefore(_)
SpaceBefore(vs) ==
    IF vs = <<>> THEN <<>> ELSE <<Space>> \o Esc(Head(vs)) \o SpaceBefore(Tail(vs))

\* C1: after any sequence of addAttribute and copyAttributes calls, the
\* factories' own included, no two attributes of an element share a name.
C1_UniqueNames ==
    \A e \in DOMAIN heap :
        \A i, j \in 1..Len(heap[e].attributes) :
            i # j => heap[e].attributes[i].name # heap[e].attributes[j].name

\* the calls repeated a stored name, after a factory and a later call
C1_Witness ==
    /\ heap # <<>>
    /\ made.op # "none" /\ ~made.fresh
    /\ Len(heap[1].attributes) >= 2
    /\ \E i, j \in 1..Len(calls) :
          i < j /\ calls[i].name = calls[j].name /\ HasName(heap[1].attributes, calls[i].name)

\* C2: for every element p and every entry c of p.children, c.parent is p,
\* whatever addChild calls were made.
C2_ParentOfChild ==
    \A p \in DOMAIN heap :
        \A i \in 1..Len(heap[p].children) : heap[heap[p].children[i]].parent = p

\* the elements reachable from the set S in at most k further steps down
RECURSIVE Reach(_, _, _)
Reach(h, S, k) ==
    IF k = 0 THEN S
    ELSE Reach(h, S \cup UNION {{h[x].children[i] : i \in 1..Len(h[x].children)} : x \in S}, k - 1)
Descendants(h, e) == Reach(h, {h[e].children[i] : i \in 1..Len(h[e].children)}, Len(h))
Acyclic(h) == \A e \in DOMAIN h : e \notin Descendants(h, e)

\* C2 for the callers that keep the tree acyclic, as addChild asks of them
C2_ParentOfChildAcyclic == Acyclic(heap) => C2_ParentOfChild

\* the final values the tag factory leaves, for definition attributes D and
\* node attributes N
TagMerge(el, D, N) ==
    /\ \A n \in {N[i].name : i \in 1..Len(N)} \ {"class"} :
          /\ Count(el.attributes, n) = 1
          /\ ValueOf(el.attributes, n) = Esc(ValuesOf(N, n)[Len(ValuesOf(N, n))])
    /\ HasName(D \o N, "class") =>
          /\ HasName(el.attributes, "class")
          /\ ValueOf(el.attributes, "class")
               = JoinClass(ValuesOf(D, "class") \o ValuesOf(N, "class"))

\* C3: the tag factory applies the definition's attributes first and the
\* node's second: a non-class name the node specifies ends with the node's
\* last (escaped) value, class ends as the definition's class values followed
\* by the node's, and without a matched definition the element has the
\* node's name and the node's attributes alone.
C3_DefaultsThenNode ==
    (made.op = "parsedElement" /\ made.fresh) =>
        LET el == heap[1]
            D == el.abbr.attributes
            N == SubSeq(calls, Len(D) + 1, Len(calls))
        IN  /\ TagMerge(el, D, N)
            /\ ~Truthy(el.abbr) =>
                  /\ el.name = made.nodeName
                  /\ AttrNamesOf(el.attributes) = Dedup(AttrNamesOf(N))

\* one addAttribute("class", v) on an element that has a class attribute:
\* the step the call log shows
C4_Step ==
    \A a \in AttrPairs :
        (/\ a.name = "class"
         /\ heap # <<>>
         /\ calls' = Append(calls, a)
         /\ HasName(heap[1].attributes, "class"))
        => LET i == CHOOSE k \in 1..Len(heap[1].attributes) :
                        heap[1].attributes[k].name = "class"
               old == heap[1].attributes[i].value
           IN  heap'[1].attributes =
                   [heap[1].attributes EXCEPT ![i].value =
                       IF old # <<>> THEN old \o <<Space>> \o Esc(a.value)
                       ELSE Esc(a.value)]
\* the class value is the class values of the call log, joined in order
C4_Joined ==
    (heap # <<>> /\ HasName(calls, "class")) =>
        /\ Count(heap[1].attributes, "class") = 1
        /\ ValueOf(heap[1].attributes, "class") = JoinClass(ValuesOf(calls, "class"))
\* C4: addAttribute("class", v) on an element that has a class attribute
\* with value old makes it old + " " + v' (v' when old is empty), v' being v
\* escaped, and changes no other attribute and no position; so the class
\* value is always the contributed values joined in insertion order.
C4_ClassAppends == []C4_Joined /\ [][C4_Step]_vars

\* a class value built from three contributions, one of them escaped,
\* beside another attribute
C4_Witness ==
    /\ heap # <<>>
    /\ ~made.fresh
    /\ Len(ValuesOf(calls, "class")) = 3
    /\ HasName(heap[1].attributes, "id")
    /\ HasName(heap[1].attributes, "class")
    /\ ValueOf(heap[1].attributes, "class") = <<"a", Space, "|", Caret, Space, "b">>

\* the class values passed to addAttribute on element 1 so far, in order
ClassCalls == IF heap # <<>> THEN ValuesOf(calls, "class") ELSE <<>>

\* C5: after addAttribute("class","a") and addAttribute("class","b") the
\* class value is "a b", and a further addAttribute("class","") leaves it
\* "a b": no trailing space is added.
C5_EmptyAppendChangesNothing ==
    /\ ClassCalls = << <<"a">>, <<"b">> >>
          => ValueOf(heap[1].attributes, "class") = <<"a", Space, "b">>
    /\ ClassCalls = << <<"a">>, <<"b">>, <<>> >>
          => ValueOf(heap[1].attributes, "class") = <<"a", Space, "b">>

\* C5 as the code has it: after "a" and "b" the class value is "a b", and a
\* further addAttribute("class","") appends the separating space: "a b ".
C5_EmptyAppendAddsSpace ==
    /\ ClassCalls = << <<"a">>, <<"b">> >>
          => ValueOf(heap[1].attributes, "class") = <<"a", Space, "b">>
    /\ ClassCalls = << <<"a">>, <<"b">>, <<>> >>
          => ValueOf(heap[1].attributes, "class") = <<"a", Space, "b", Space>>

C5_Witness ==
    /\ ClassCalls = << <<"a">>, <<"b">>, <<>> >>
    /\ ~made.fresh

\* C6: for every name other than "class", after any sequence of
\* addAttribute calls there is exactly one entry of that name, it holds the
\* (escaped) value of the most recent call with that name, and it stays
\* where it was first appended.
C6_LastWriteWins ==
    heap # <<>> =>
        /\ \A n \in {calls[i].name : i \in 1..Len(calls)} \ {"class"} :
              /\ Count(heap[1].attributes, n) = 1
              /\ ValueOf(heap[1].attributes, n) = Esc(ValuesOf(calls, n)[Len(ValuesOf(calls, n))])
        /\ AttrNamesOf(heap[1].attributes) = Dedup(AttrNamesOf(calls))

\* C7: the snippet factory's element has id and class as its first two
\* attributes; id is the caret placeholder unless the node gives an id, and
\* then the node's last (escaped) id; class is the placeholder followed by
\* " " and each class value of the node.
C7_SnippetDefaults ==
    (made.op = "parsedSnippet" /\ made.fresh) =>
        LET at == heap[1].attributes
            N == SubSeq(calls, 3, Len(calls))
            ids == ValuesOf(N, "id")
        IN  /\ Len(at) >= 2
            /\ at[1].name = "id"
            /\ at[2].name = "class"
            /\ at[1].value = IF ids = <<>> THEN getCaretPlaceholder ELSE Esc(ids[Len(ids)])
            /\ at[2].value = getCaretPlaceholder \o SpaceBefore(ValuesOf(N, "class"))

\* a node that gives class "a" and an id
C7_Witness ==
    /\ made.op = "parsedSnippet" /\ made.fresh
    /\ HasName(SubSeq(calls, 3, Len(calls)), "id")
    /\ heap[1].attributes[2].value = <<Caret, Space, "a">>

\* C8: when the definition obtained for the node is a Reference to b, the
\* tag factory makes exactly one more lookup, for b, and none after it
\* whatever that returns; the element takes its name and its default
\* attributes from the definition found for b and keeps the node's name in
\* real_name.
C8_OneHop ==
    (made.op = "parsedElement" /\ made.ref # Undefined) =>
        LET el == heap[1]
            found == getAbbreviation(made.ref)
            n == Len(made.lookups)
        IN  /\ n \in {1, 2}
            /\ made.lookups[n] = Lookup("abbreviation", made.ref)
            /\ n = 2 => made.lookups[1] = Lookup("abbreviation", made.nodeName)
            /\ el.abbr = found
            /\ el.real_name = made.nodeName
            /\ Truthy(found) => el.name = found.name
            /\ made.fresh =>
                  SubSeq(AttrNamesOf(el.attributes), 1, Len(Dedup(AttrNamesOf(found.attributes))))
                      = Dedup(AttrNamesOf(found.attributes))

\* the second lookup returned a Reference again, and no third was made
C8_Witness ==
    /\ made.op = "parsedElement"
    /\ made.lookups = <<Lookup("abbreviation", "c"), Lookup("abbreviation", "a")>>
    /\ heap[1].abbr.kind = "reference"

\* C9: getContent on deferred content returns what the producer gives for
\* the element as it is at the call (the number of children now, the
\* element's own name); on literal content it returns the literal, and the
\* empty text when no content was set.
C9_ContentNotCached ==
    last.op = "getContent" =>
        LET el == heap[last.elem] IN
        /\ (el.content.kind = "function" /\ el.content.fn = "childCount")
              => last.ret = Num(Len(el.children))
        /\ (el.content.kind = "function" /\ el.content.fn = "realName")
              => last.ret = Str(<<ToString(last.elem)>>)
        /\ el.content.kind = "text" => last.ret = Str(el.content.text)
        /\ el.content = TextContent(<<>>) => last.ret = Str(<<>>)

\* the producer counts one child after an addChild
C9_Witness ==
    /\ last.op = "getContent"
    /\ heap[last.elem].content = FunctionContent("childCount")
    /\ last.ret = Num(1)

\* the element k steps down from d along the last entry of children
RECURSIVE Descend(_, _, _)
Descend(h, d, k) ==
    IF k = 0 \/ h[d].children = <<>> THEN d
    ELSE Descend(h, h[d].children[Len(h[d].children)], k - 1)

\* C10: on an acyclic tree findDeepestChild returns null for an element
\* without children, and otherwise returns the childless element reached by
\* following the last entry of children; it never returns the element it
\* was called on.
C10_DeepestChild ==
    last.op = "findDeepestChild" =>
        LET e == last.elem
            r == last.retElem
        IN  /\ Acyclic(heap) => ~hung
            /\ ~hung =>
                  /\ r # e
                  /\ heap[e].children = <<>> => r = Null
                  /\ heap[e].children # <<>> =>
                        /\ r \in DOMAIN heap
                        /\ heap[r].children = <<>>
                        /\ \E k \in 1..Len(heap) : r = Descend(heap, e, k)

\* the chain 1 -> 2 -> 3 -> 4, asked at its root
C10_Witness ==
    /\ last.op = "findDeepestChild" /\ ~hung
    /\ last.elem = 1 /\ last.retElem = 4
    /\ heap[1].children = <<2>> /\ heap[2].children = <<3>> /\ heap[3].children = <<4>>

====
